---- MODULE Spec2Model ----
(***************************************************************************)
(* Model of src/src/app_state.rs: the wallpaper cursor (Wallpapers) and    *)
(* the preview state (UiState).                                            *)
(*                                                                         *)
(* The cursor's methods are operators on a record w with the struct's      *)
(* fields plus `status`, so that remove() can call next_wall() as the code *)
(* does.  A panic stops the method where it happens: the fields assigned   *)
(* before the panic keep their new values and status names the panic.      *)
(***************************************************************************)
EXTENDS Integers, Sequences, FiniteSets, TLC

VARIABLES files, source, current, index, ratio, status, csv, ui,
          lastOp, pre, nextRun, roundTrip

vars == <<files, source, current, index, ratio, status, csv, ui,
          lastOp, pre, nextRun, roundTrip>>

(***************************************************************************)
(* Bounds and value sets                                                   *)
(***************************************************************************)
\* number of path arguments on the command line
MaxArgs == 2

Dirs == {1, 2}
NameOrder == <<"a.jpg", "b.jpg">>
Names == {NameOrder[i] : i \in 1..Len(NameOrder)}
Paths == Dirs \X Names
Geoms == {"gA", "gB"}
NoGeom == "none"
\* Option: None is the empty sequence, Some(v) the sequence of v alone
None == <<>>
Some(v) == <<v>>
Unwrap(o) == o[1]
NoArg == "-"

\* usize arithmetic wraps at this modulus in a build without overflow checks
\* (2^30 stands for 2^64: TLC's integers are 32 bits wide)
UsizeModulus == 1073741824

(***************************************************************************)
(* Collaborators of the library crate                                      *)
(***************************************************************************)
DefaultRatio == <<1440, 2560>>
Ratios == {DefaultRatio, <<16, 9>>}

\* wallpaper_ui::filename: the file-name component of a path
filename(p) == p[2]

\* wallpaper_ui::wallpaper_dir
wallpaper_dir == 1

\* WallInfo::default()
WallInfoDefault == [filename |-> "", geometries |-> [r \in Ratios |-> NoGeom]]

\* the geometry the cropper derives when none is stored for the ratio
DerivedGeom(info, r) == IF r = DefaultRatio THEN "gA" ELSE "gB"

\* WallInfo::get_geometry
WallInfoGet(info, r) ==
    IF info.geometries[r] # NoGeom THEN info.geometries[r] ELSE DerivedGeom(info, r)

\* WallInfo::set_geometry
WallInfoSet(info, r, g) ==
    [info EXCEPT !.geometries = [info.geometries EXCEPT ![r] = g]]

\* the record the store holds for a filename, when it holds one
StoredRecord(n) ==
    [filename |-> n,
     geometries |-> [r \in Ratios |->
        IF n = NameOrder[1] /\ r = DefaultRatio THEN "gB"
        ELSE IF n # NameOrder[1] /\ r # DefaultRatio THEN "gA" ELSE NoGeom]]

\* the record stores WallpapersCsv::new() may read
CsvStores == {s \in [Names -> {None} \cup {Some(StoredRecord(n)) : n \in Names}] :
                \A n \in Names : s[n] # None => s[n] = Some(StoredRecord(n))}

\* WallpapersCsv::get
CsvGet(store, n) == IF n \in DOMAIN store THEN store[n] ELSE None

\* modification time of a file
mtime(p) == IF p = <<1, NameOrder[1]>> THEN 1
            ELSE IF p = <<2, NameOrder[2]>> THEN 3 ELSE 2

\* wallpaper_ui::filter_images: the image files present under a directory
filter_images(d, present) ==
    SelectSeq([i \in 1..Len(NameOrder) |-> <<d, NameOrder[i]>>],
              LAMBDA p : p \in present)

(***************************************************************************)
(* UiState                                                                 *)
(***************************************************************************)
PlainModes == {"Source", "Default", "Start", "Center", "End", "Manual", "None"}

PreviewModes ==
    {[tag |-> t, geom |-> NoGeom] : t \in PlainModes}
    \cup {[tag |-> "Candidate", geom |-> g] : g \in Geoms \cup {NoGeom}}

UiStates == [show_filelist : BOOLEAN, show_faces : BOOLEAN, preview_mode : PreviewModes]

\* impl Default for UiState
UiDefault ==
    [show_filelist |-> FALSE, show_faces |-> FALSE,
     preview_mode |-> [tag |-> "Source", geom |-> NoGeom]]

\* reset that leaves a hover candidate in place
reset_keeps_candidate(u) ==
    [[[u EXCEPT !.show_filelist = FALSE]
         EXCEPT !.show_faces = FALSE]
         EXCEPT !.preview_mode =
            IF @.tag = "Candidate" THEN @ ELSE [tag |-> "Source", geom |-> NoGeom]]

\* reset that forgets the faces toggle
reset_keeps_faces(u) ==
    [[u EXCEPT !.show_filelist = FALSE]
        EXCEPT !.preview_mode = [tag |-> "Source", geom |-> NoGeom]]

\* UiState::reset
reset(u) ==
    [[[u EXCEPT !.show_filelist = FALSE]
         EXCEPT !.show_faces = FALSE]
         EXCEPT !.preview_mode = [tag |-> "Source", geom |-> NoGeom]]

\* the owner of both structs resets the preview state when the image changes
OnImageChange(u) == reset(u)

(***************************************************************************)
(* Wallpapers                                                              *)
(***************************************************************************)
Running == "running"
PanicNoInfo == "panic: could not get wallpaper info"
PanicBounds == "panic: index out of bounds"
PanicOverflow == "panic: attempt to subtract with overflow"
PanicNotFound == "panic: could not find wallpaper"
PanicNoWalls == "panic: no wallpapers found"
Exit1 == "exit 1: wallpaper directory does not exist"

\* the struct as a value
Self ==
    [files |-> files, source |-> source, current |-> current,
     index |-> index, ratio |-> ratio, status |-> status]

\* impl Default for Wallpapers
WallpapersDefault ==
    [files |-> <<>>, source |-> WallInfoDefault, current |-> WallInfoDefault,
     index |-> 0, ratio |-> DefaultRatio, status |-> Running]

\* Vec::truncate(i) in the place of Vec::remove(i)
TruncateAt(s, i) == SubSeq(s, 1, i)

\* Vec::remove(i) on a zero-based position
RemoveAt(s, i) == [k \in 1..(Len(s) - 1) |-> IF k <= i THEN s[k] ELSE s[k + 1]]

\* prev_wall that reloads source but leaves the edited record alone
prev_wall_keeps_current(w, store, checked) ==
    LET i == IF w.index = 0 THEN (Len(w.files) - 1) % UsizeModulus ELSE w.index - 1
        m == [w EXCEPT !.index = i]
    IN  IF w.index = 0 /\ Len(w.files) = 0 /\ checked
        THEN [w EXCEPT !.status = PanicOverflow]
        ELSE IF m.index >= Len(m.files)
        THEN [m EXCEPT !.status = PanicBounds]
        ELSE IF CsvGet(store, filename(m.files[m.index + 1])) = None
        THEN [m EXCEPT !.status = PanicNoInfo]
        ELSE [m EXCEPT !.source = Unwrap(CsvGet(store, filename(m.files[m.index + 1])))]

\* prev_wall that stops at the first entry instead of wrapping to the last
prev_wall_no_wrap(w, store, checked) ==
    LET i == IF w.index = 0 THEN 0 ELSE w.index - 1
        m == [w EXCEPT !.index = i]
    IN  IF m.index >= Len(m.files)
        THEN [m EXCEPT !.status = PanicBounds]
        ELSE IF CsvGet(store, filename(m.files[m.index + 1])) = None
        THEN [m EXCEPT !.status = PanicNoInfo]
        ELSE [[m EXCEPT !.source = Unwrap(CsvGet(store, filename(m.files[m.index + 1])))]
                 EXCEPT !.current = Unwrap(CsvGet(store, filename(m.files[m.index + 1])))]

\* Wallpapers::prev_wall; checked: the build has overflow checks, so that
\* files.len() - 1 on an empty list panics instead of wrapping
prev_wall(w, store, checked) ==
    IF w.index = 0 /\ Len(w.files) = 0 /\ checked
    THEN [w EXCEPT !.status = PanicOverflow]
    ELSE LET i == IF w.index = 0
                  THEN (Len(w.files) - 1) % UsizeModulus
                  ELSE w.index - 1
             m == [w EXCEPT !.index = i]
         IN  IF m.index >= Len(m.files)
             THEN [m EXCEPT !.status = PanicBounds]
             ELSE LET loaded == CsvGet(store, filename(m.files[m.index + 1]))
                  IN  IF loaded = None
                      THEN [m EXCEPT !.status = PanicNoInfo]
                      ELSE [[m EXCEPT !.source = Unwrap(loaded)]
                               EXCEPT !.current = Unwrap(loaded)]

\* next_wall that stops at the last entry instead of wrapping to the first
next_wall_no_wrap(w, store, checked) ==
    LET i == IF w.index + 1 >= Len(w.files) THEN w.index ELSE w.index + 1
        m == [w EXCEPT !.index = i]
    IN  IF m.index >= Len(m.files)
        THEN [m EXCEPT !.status = PanicBounds]
        ELSE IF CsvGet(store, filename(m.files[m.index + 1])) = None
        THEN [m EXCEPT !.status = PanicNoInfo]
        ELSE [[m EXCEPT !.source = Unwrap(CsvGet(store, filename(m.files[m.index + 1])))]
                 EXCEPT !.current = Unwrap(CsvGet(store, filename(m.files[m.index + 1])))]

\* next_wall that falls back to a default record when the store has none
next_wall_default_on_miss(w, store, checked) ==
    LET i == IF w.index = (Len(w.files) - 1) % UsizeModulus THEN 0 ELSE w.index + 1
        m == [w EXCEPT !.index = i]
    IN  IF Len(w.files) = 0 /\ checked
        THEN [w EXCEPT !.status = PanicOverflow]
        ELSE IF m.index >= Len(m.files)
        THEN [m EXCEPT !.status = PanicBounds]
        ELSE IF CsvGet(store, filename(m.files[m.index + 1])) = None
        THEN [[m EXCEPT !.source = WallInfoDefault] EXCEPT !.current = WallInfoDefault]
        ELSE [[m EXCEPT !.source = Unwrap(CsvGet(store, filename(m.files[m.index + 1])))]
                 EXCEPT !.current = Unwrap(CsvGet(store, filename(m.files[m.index + 1])))]

\* Wallpapers::next_wall
next_wall(w, store, checked) ==
    IF Len(w.files) = 0 /\ checked
    THEN [w EXCEPT !.status = PanicOverflow]
    ELSE LET i == IF w.index = (Len(w.files) - 1) % UsizeModulus
                  THEN 0
                  ELSE w.index + 1
             m == [w EXCEPT !.index = i]
         IN  IF m.index >= Len(m.files)
             THEN [m EXCEPT !.status = PanicBounds]
             ELSE LET loaded == CsvGet(store, filename(m.files[m.index + 1]))
                  IN  IF loaded = None
                      THEN [m EXCEPT !.status = PanicNoInfo]
                      ELSE [[m EXCEPT !.source = Unwrap(loaded)]
                               EXCEPT !.current = Unwrap(loaded)]

\* remove that deletes the entry next_wall moved to, not the one it left
remove_deletes_next(w, store, checked) ==
    IF next_wall(w, store, checked).status # Running
    THEN next_wall(w, store, checked)
    ELSE [[next_wall(w, store, checked)
              EXCEPT !.files = RemoveAt(@, next_wall(w, store, checked).index)]
              EXCEPT !.index = w.index]

\* remove that deletes the entry before it loads the following image
remove_deletes_first(w, store, checked) ==
    IF w.index >= Len(w.files)
    THEN [w EXCEPT !.status = PanicBounds]
    ELSE LET n == next_wall([[w EXCEPT !.files = RemoveAt(w.files, w.index)]
                                EXCEPT !.index = w.index - 1], store, checked)
         IN  IF n.status # Running THEN n ELSE [n EXCEPT !.index = w.index]

\* remove that drops the entry and keeps the index without loading the next image
remove_without_reload(w, store, checked) ==
    IF w.index >= Len(w.files)
    THEN [w EXCEPT !.status = PanicBounds]
    ELSE [w EXCEPT !.files = RemoveAt(w.files, w.index)]

\* Wallpapers::remove
remove(w, store, checked) ==
    LET current_index == w.index
        n == next_wall(w, store, checked)
    IN  IF n.status # Running THEN n
        ELSE IF current_index >= Len(n.files)
        THEN [n EXCEPT !.status = PanicBounds]
        ELSE [[n EXCEPT !.files = RemoveAt(n.files, current_index)]
                 EXCEPT !.index = current_index]

\* Iterator::rposition in the place of position: the last match
Position_last(fs, fname) ==
    IF \E k \in 1..Len(fs) : filename(fs[k]) = fname
    THEN (CHOOSE k \in 1..Len(fs) :
            /\ filename(fs[k]) = fname
            /\ \A j \in (k + 1)..Len(fs) : filename(fs[j]) # fname) - 1
    ELSE -1

\* Iterator::position: the first zero-based position whose filename is fname
Position(fs, fname) ==
    IF \E k \in 1..Len(fs) : filename(fs[k]) = fname
    THEN (CHOOSE k \in 1..Len(fs) :
            /\ filename(fs[k]) = fname
            /\ \A j \in 1..(k - 1) : filename(fs[j]) # fname) - 1
    ELSE -1

\* set_from_filename that rebuilds the cursor and so resets the ratio
set_from_filename_resets_ratio(w, store, fname) ==
    IF CsvGet(store, fname) = None
    THEN [w EXCEPT !.status = PanicNoInfo]
    ELSE IF Position(w.files, fname) = -1
    THEN [[[w EXCEPT !.source = Unwrap(CsvGet(store, fname))]
              EXCEPT !.current = Unwrap(CsvGet(store, fname))]
              EXCEPT !.status = PanicNotFound]
    ELSE [[[[w EXCEPT !.source = Unwrap(CsvGet(store, fname))]
               EXCEPT !.current = Unwrap(CsvGet(store, fname))]
               EXCEPT !.index = Position(w.files, fname)]
               EXCEPT !.ratio = DefaultRatio]

\* Wallpapers::set_from_filename
set_from_filename(w, store, fname) ==
    LET loaded == CsvGet(store, fname)
    IN  IF loaded = None
        THEN [w EXCEPT !.status = PanicNoInfo]
        ELSE LET l == [[w EXCEPT !.source = Unwrap(loaded)]
                          EXCEPT !.current = Unwrap(loaded)]
             IN  IF Position(l.files, fname) = -1
                 THEN [l EXCEPT !.status = PanicNotFound]
                 ELSE [l EXCEPT !.index = Position(l.files, fname)]

\* Wallpapers::get_geometry
get_geometry(w) == WallInfoGet(w.current, w.ratio)

\* set_geometry that writes the baseline record as well
set_geometry_both(w, geom) ==
    [[w EXCEPT !.current = WallInfoSet(w.current, w.ratio, geom)]
        EXCEPT !.source = WallInfoSet(w.source, w.ratio, geom)]

\* set_geometry that writes under the default ratio, not the active one
set_geometry_default_ratio(w, geom) ==
    [w EXCEPT !.current = WallInfoSet(w.current, DefaultRatio, geom)]

\* Wallpapers::set_geometry
set_geometry(w, geom) == [w EXCEPT !.current = WallInfoSet(w.current, w.ratio, geom)]

\* what a path argument may be: a file, or a directory
ArgItems == Paths \cup {<<d>> : d \in Dirs}

\* args.paths: absent, or up to MaxArgs path arguments
ArgLists == {None} \cup {Some(l) : l \in UNION {[1..n -> ArgItems] : n \in 0..MaxArgs}}

\* the filesystems from_args may find: the image files present and the
\* directories present (a file's directory is present)
FileSystems ==
    {fs \in [present : SUBSET Paths, dirs : SUBSET Dirs] :
        \A p \in fs.present : p[1] \in fs.dirs}

\* the loop over args.paths: canonicalize drops what does not exist, a file
\* is pushed, a directory is expanded by filter_images
RECURSIVE ResolveArgs(_, _)
ResolveArgs(paths, fs) ==
    IF paths = <<>> THEN <<>>
    ELSE LET p == Head(paths)
             rest == ResolveArgs(Tail(paths), fs)
         IN  IF Len(p) = 2
             THEN (IF p \in fs.present THEN <<p>> \o rest ELSE rest)
             ELSE (IF p[1] \in fs.dirs
                   THEN filter_images(p[1], fs.present) \o rest
                   ELSE rest)

\* insertion of one path into a list sorted ascending by mtime, after its equals
RECURSIVE InsertByMtime(_, _)
InsertByMtime(sorted, p) ==
    IF sorted = <<>> THEN <<p>>
    ELSE IF mtime(Head(sorted)) <= mtime(p)
         THEN <<Head(sorted)>> \o InsertByMtime(Tail(sorted), p)
         ELSE <<p>> \o sorted

\* Vec::sort_by_key on the mtime: a stable ascending sort
RECURSIVE SortByMtime(_)
SortByMtime(s) ==
    IF s = <<>> THEN <<>>
    ELSE InsertByMtime(SortByMtime(SubSeq(s, 1, Len(s) - 1)), s[Len(s)])

\* the reverse left out: the list stays oldest first
Reverse_forgotten(s) == s

\* Vec::reverse
Reverse(s) == [k \in 1..Len(s) |-> s[Len(s) + 1 - k]]

\* from_args that loads the record of the last file of the list, not the first
from_args_loads_last(paths, fs, store) ==
    LET given == IF paths = None THEN <<>> ELSE ResolveArgs(Unwrap(paths), fs)
        w == WallpapersDefault
        all_files == Reverse(SortByMtime(
                         IF given = <<>>
                         THEN filter_images(wallpaper_dir, fs.present)
                         ELSE given))
    IN  IF given = <<>> /\ wallpaper_dir \notin fs.dirs
        THEN [w EXCEPT !.status = Exit1]
        ELSE IF all_files = <<>>
        THEN [w EXCEPT !.status = PanicNoWalls]
        ELSE IF CsvGet(store, filename(all_files[Len(all_files)])) = None
        THEN [w EXCEPT !.status = PanicNoInfo]
        ELSE [[[w EXCEPT !.files = all_files]
                  EXCEPT !.source = Unwrap(CsvGet(store, filename(all_files[Len(all_files)])))]
                  EXCEPT !.current = Unwrap(CsvGet(store, filename(all_files[Len(all_files)])))]

\* from_args that returns the default cursor when it finds no file
from_args_empty_ok(paths, fs, store) ==
    LET given == IF paths = None THEN <<>> ELSE ResolveArgs(Unwrap(paths), fs)
        w == WallpapersDefault
        all_files == Reverse(SortByMtime(
                         IF given = <<>>
                         THEN filter_images(wallpaper_dir, fs.present)
                         ELSE given))
    IN  IF given = <<>> /\ wallpaper_dir \notin fs.dirs
        THEN [w EXCEPT !.status = Exit1]
        ELSE IF all_files = <<>>
        THEN w
        ELSE IF CsvGet(store, filename(all_files[1])) = None
        THEN [w EXCEPT !.status = PanicNoInfo]
        ELSE [[[w EXCEPT !.files = all_files]
                  EXCEPT !.source = Unwrap(CsvGet(store, filename(all_files[1])))]
                  EXCEPT !.current = Unwrap(CsvGet(store, filename(all_files[1])))]

\* Wallpapers::from_args; paths is args.paths
from_args(paths, fs, store) ==
    LET given == IF paths = None THEN <<>> ELSE ResolveArgs(Unwrap(paths), fs)
        w == WallpapersDefault
    IN  IF given = <<>> /\ wallpaper_dir \notin fs.dirs
        THEN [w EXCEPT !.status = Exit1]
        ELSE LET all_files ==
                     Reverse(SortByMtime(
                         IF given = <<>>
                         THEN filter_images(wallpaper_dir, fs.present)
                         ELSE given))
             IN  IF all_files = <<>>
                 THEN [w EXCEPT !.status = PanicNoWalls]
                 ELSE LET loaded == CsvGet(store, filename(all_files[1]))
                      IN  IF loaded = None
                          THEN [w EXCEPT !.status = PanicNoInfo]
                          ELSE [[[w EXCEPT !.files = all_files]
                                    EXCEPT !.source = Unwrap(loaded)]
                                    EXCEPT !.current = Unwrap(loaded)]

(***************************************************************************)
(* The state machine                                                       *)
(***************************************************************************)
Op(name, arg) == [op |-> name, arg |-> arg]

\* the fields of the struct take the values of w
Assign(w) ==
    /\ files' = w.files
    /\ source' = w.source
    /\ current' = w.current
    /\ index' = w.index
    /\ ratio' = w.ratio
    /\ status' = w.status

\* History, for stating the properties: lastOp is the operation that led to
\* the state; pre is the index before it, whether current was edited before
\* it, the preview state it reset (UiDefault when it resets nothing) and,
\* for from_args, what it found on disk: the files the path arguments
\* resolved to and the listing of the wallpaper directory (None when the
\* directory does not exist); nextRun is the run of consecutive next_wall
\* calls so far, roundTrip the prev_wall/next_wall pair under way.
ResettingOps == {"prev_wall", "next_wall", "remove", "set_from_filename", "reset"}
Pre(op) ==
    [index |-> index, edited |-> current # source,
     ui |-> IF op \in ResettingOps THEN ui ELSE UiDefault,
     given |-> <<>>, listing |-> None]
NoRun == [start |-> 0, count |-> 0]
NoTrip == [from |-> 0, ops |-> <<>>]

NextRunAfter(op, w) ==
    IF op # "next_wall" \/ w.status # Running THEN NoRun
    ELSE IF nextRun.count = 0 \/ nextRun.count >= Len(files)
         THEN [start |-> index, count |-> 1]
         ELSE [nextRun EXCEPT !.count = @ + 1]

RoundTripAfter(op, w) ==
    IF op \notin {"prev_wall", "next_wall"} \/ w.status # Running THEN NoTrip
    ELSE IF Len(roundTrip.ops) = 1 /\ roundTrip.ops[1] # op
         THEN [roundTrip EXCEPT !.ops = Append(@, op)]
         ELSE [from |-> index, ops |-> <<op>>]

Track(op, arg, w) ==
    /\ lastOp' = Op(op, arg)
    /\ pre' = Pre(op)
    /\ nextRun' = NextRunAfter(op, w)
    /\ roundTrip' = RoundTripAfter(op, w)

\* before construction: no cursor yet, the record store is whatever is on disk
Init ==
    /\ files = <<>>
    /\ source = WallInfoDefault
    /\ current = WallInfoDefault
    /\ index = 0
    /\ ratio = DefaultRatio
    /\ status = "start"
    /\ csv \in CsvStores
    /\ ui = UiDefault
    /\ lastOp = Op("start", NoArg)
    /\ pre = [index |-> 0, edited |-> FALSE, ui |-> UiDefault,
              given |-> <<>>, listing |-> None]
    /\ nextRun = NoRun
    /\ roundTrip = NoTrip

\* construction of the cursor and of the preview state
FromArgs ==
    /\ status = "start"
    /\ \E paths \in ArgLists, fs \in FileSystems :
          LET w == from_args(paths, fs, csv)
          IN  /\ Assign(w)
              /\ lastOp' = Op("from_args", NoArg)
              /\ pre' = [Pre("from_args") EXCEPT
                            !.given = IF paths = None THEN <<>>
                                      ELSE ResolveArgs(Unwrap(paths), fs),
                            !.listing = IF wallpaper_dir \in fs.dirs
                                        THEN Some(filter_images(wallpaper_dir, fs.present))
                                        ELSE None]
              /\ nextRun' = NextRunAfter("from_args", w)
              /\ roundTrip' = RoundTripAfter("from_args", w)
    /\ ui' = UiDefault
    /\ UNCHANGED csv

\* the preview state after a cursor method that changes the image: reset when
\* the method returned, untouched when it panicked
UiAfter(w) == IF w.status = Running THEN OnImageChange(ui) ELSE ui

PrevWall ==
    /\ status = Running
    /\ \E checked \in BOOLEAN :
          LET w == prev_wall(Self, csv, checked)
          IN  Assign(w) /\ ui' = UiAfter(w) /\ Track("prev_wall", NoArg, w)
    /\ UNCHANGED csv

NextWall ==
    /\ status = Running
    /\ \E checked \in BOOLEAN :
          LET w == next_wall(Self, csv, checked)
          IN  Assign(w) /\ ui' = UiAfter(w) /\ Track("next_wall", NoArg, w)
    /\ UNCHANGED csv

Remove ==
    /\ status = Running
    /\ \E checked \in BOOLEAN :
          LET w == remove(Self, csv, checked)
          IN  Assign(w) /\ ui' = UiAfter(w) /\ Track("remove", NoArg, w)
    /\ UNCHANGED csv

SetFromFilename ==
    /\ status = Running
    /\ \E fname \in Names :
          LET w == set_from_filename(Self, csv, fname)
          IN  Assign(w) /\ ui' = UiAfter(w) /\ Track("set_from_filename", fname, w)
    /\ UNCHANGED csv

SetGeometry ==
    /\ status = Running
    /\ \E geom \in Geoms :
          LET w == set_geometry(Self, geom)
          IN  Assign(w) /\ Track("set_geometry", geom, w)
    /\ UNCHANGED <<csv, ui>>

\* the owner writes the public field ratio
SetRatio ==
    /\ status = Running
    /\ \E r \in Ratios \ {ratio} :
          LET w == [Self EXCEPT !.ratio = r]
          IN  Assign(w) /\ Track("set_ratio", NoArg, w)
    /\ UNCHANGED <<csv, ui>>

\* the owner writes the public fields of the preview state
ToggleFilelist ==
    /\ status = Running
    /\ ui' = [ui EXCEPT !.show_filelist = ~@]
    /\ Track("set_ui", NoArg, Self)
    /\ UNCHANGED <<files, source, current, index, ratio, status, csv>>

ToggleFaces ==
    /\ status = Running
    /\ ui' = [ui EXCEPT !.show_faces = ~@]
    /\ Track("set_ui", NoArg, Self)
    /\ UNCHANGED <<files, source, current, index, ratio, status, csv>>

SetPreviewMode ==
    /\ status = Running
    /\ \E m \in PreviewModes \ {ui.preview_mode} : ui' = [ui EXCEPT !.preview_mode = m]
    /\ Track("set_ui", NoArg, Self)
    /\ UNCHANGED <<files, source, current, index, ratio, status, csv>>

\* the owner calls UiState::reset
Reset ==
    /\ status = Running
    /\ ui' = reset(ui)
    /\ Track("reset", NoArg, Self)
    /\ UNCHANGED <<files, source, current, index, ratio, status, csv>>

\* the cursor on its own: construction, navigation, removal, edits
Next ==
    \/ FromArgs
    \/ PrevWall
    \/ NextWall
    \/ Remove
    \/ SetFromFilename
    \/ SetGeometry
    \/ SetRatio

Spec == Init /\ [][Next]_vars

\* the preview state with the cursor methods that change the image
NextUi ==
    \/ FromArgs
    \/ PrevWall
    \/ NextWall
    \/ Remove
    \/ SetFromFilename
    \/ ToggleFilelist
    \/ ToggleFaces
    \/ SetPreviewMode
    \/ Reset

SpecUi == Init /\ [][NextUi]_vars

(***************************************************************************)
(* Properties                                                              *)
(***************************************************************************)
NavOps == {"prev_wall", "next_wall", "set_from_filename"}
ImageChangeOps == NavOps \cup {"remove"}

\* the store's record for the file at zero-based position i of fs
RecordAt(fs, i) == CsvGet(csv, filename(fs[i + 1]))

\* C1: whenever the cursor is live and files is non-empty, 0 <= index < files.len()
C1_IndexValid ==
    (status = Running /\ Len(files) > 0) => (0 <= index /\ index < Len(files))

\* C2: remove() on a list of N > 1 entries from a valid index i leaves the
\* cursor on the entry that was at (i+1) mod N
C2_RemoveLandsOnNext ==
    [][(/\ lastOp'.op = "remove"
        /\ status' = Running
        /\ Len(files) > 1
        /\ index < Len(files))
       => (/\ index' < Len(files')
           /\ files'[index' + 1] = files[((index + 1) % Len(files)) + 1])]_vars

\* C3: remove() on a list of N > 1 entries from a valid index i leaves N-1
\* entries, and source and current are the store's record for the entry that
\* was at (i+1) mod N, the wraparound included
C3_RemoveLoadsNext ==
    [][(/\ lastOp'.op = "remove"
        /\ status' = Running
        /\ Len(files) > 1
        /\ index < Len(files))
       => (/\ Len(files') = Len(files) - 1
           /\ source' = current'
           /\ RecordAt(files, (index + 1) % Len(files)) = Some(source'))]_vars

\* remove() has removed the last entry of a longer list and loaded the first
C3_Witness ==
    /\ lastOp.op = "remove"
    /\ status = Running
    /\ Len(files) >= 2
    /\ pre.index = Len(files)
    /\ RecordAt(files, 0) = Some(source)
    /\ filename(files[1]) # filename(files[Len(files)])

\* C4: after prev_wall, next_wall or set_from_filename has returned, source and
\* current are equal and are the store's record for files[index], whatever
\* was edited before the call
C4_NavigationReloads ==
    (lastOp.op \in NavOps /\ status = Running)
    => (/\ source = current
        /\ index < Len(files)
        /\ RecordAt(files, index) = Some(source))

\* an edited record was dropped by a navigation call on a single-entry list,
\* which reloaded the same image
C4_Witness ==
    /\ lastOp.op \in NavOps
    /\ status = Running
    /\ pre.edited
    /\ Len(files) = 1
    /\ source = current

\* C5: from a valid index, k consecutive next_wall calls (k <= files.len())
\* lead to (start + k) mod files.len(), so files.len() of them lead back to
\* the start
C5_NextCycle ==
    (status = Running /\ nextRun.count > 0 /\ nextRun.start < Len(files))
    => (/\ index = (nextRun.start + nextRun.count) % Len(files)
        /\ nextRun.count = Len(files) => index = nextRun.start)

\* three next_wall calls on three files have led from 0 through the wrap back to 0
C5_Witness ==
    /\ status = Running
    /\ Len(files) = 3
    /\ nextRun = [start |-> 0, count |-> 3]
    /\ index = 0

\* C6: from a valid index, prev_wall then next_wall, and next_wall then
\* prev_wall, lead back to the index they started from
C6_RoundTrip ==
    (status = Running /\ Len(roundTrip.ops) = 2 /\ roundTrip.from < Len(files))
    => index = roundTrip.from

\* prev_wall at 0 wrapped to the last entry and next_wall wrapped back
C6_Witness ==
    /\ status = Running
    /\ Len(files) >= 2
    /\ roundTrip = [from |-> 0, ops |-> <<"prev_wall", "next_wall">>]
    /\ index = 0

\* next_wall at the last entry wrapped to 0 and prev_wall wrapped back
C6_WitnessNextPrev ==
    /\ status = Running
    /\ Len(files) >= 2
    /\ roundTrip = [from |-> Len(files) - 1, ops |-> <<"next_wall", "prev_wall">>]
    /\ index = Len(files) - 1

\* C7 as stated: files is non-empty in every state of the constructed cursor
C7_FilesNeverEmpty == status = Running => Len(files) > 0

\* C7 amended: construction yields a non-empty list, and a non-empty list
\* becomes empty only by remove() on a single-entry list
C7_EmptyOnlyByRemovingLast ==
    [][status' = Running
       => (/\ lastOp'.op = "from_args" => Len(files') > 0
           /\ (Len(files) > 0 /\ Len(files') = 0)
                  => (lastOp'.op = "remove" /\ Len(files) = 1))]_vars

\* remove() on a single-entry list has left the cursor live with no files
C7_Witness ==
    /\ lastOp.op = "remove"
    /\ status = Running
    /\ Len(files) = 0

\* C8: after prev_wall, next_wall, remove or set_from_filename has returned,
\* both toggles are off and the preview mode is Source
C8_PreviewResetOnImageChange ==
    (lastOp.op \in ImageChangeOps /\ status = Running)
    => (/\ ui.show_filelist = FALSE
        /\ ui.show_faces = FALSE
        /\ ui.preview_mode = [tag |-> "Source", geom |-> NoGeom])

\* the image changed while an overlay was set, and the overlay is gone
C8_Witness ==
    /\ lastOp.op \in ImageChangeOps
    /\ status = Running
    /\ pre.ui.show_faces
    /\ pre.ui.preview_mode.tag = "Manual"
    /\ ui.preview_mode.tag = "Source"
    /\ ~ui.show_faces

\* C9: reset() from any preview state yields toggles off and mode Source,
\* which is the state UiState::default() builds
C9_ResetYieldsDefault ==
    /\ reset(ui) = [show_filelist |-> FALSE, show_faces |-> FALSE,
                    preview_mode |-> [tag |-> "Source", geom |-> NoGeom]]
    /\ reset(ui) = UiDefault
    /\ lastOp.op = "reset" => ui = UiDefault

\* reset() was called with both toggles on and a hover candidate holding a
\* geometry
C9_Witness ==
    /\ lastOp.op = "reset"
    /\ pre.ui.show_filelist
    /\ pre.ui.show_faces
    /\ pre.ui.preview_mode.tag = "Candidate"
    /\ pre.ui.preview_mode.geom # NoGeom
    /\ ui = UiDefault

\* C10: after set_geometry(g), get_geometry() under the same ratio is g, and
\* get_geometry() under every other ratio is what it was before
C10_GeometryPerRatio ==
    [][lastOp'.op = "set_geometry"
       => (/\ get_geometry([current |-> current', ratio |-> ratio']) = lastOp'.arg
           /\ ratio' = ratio
           /\ \A r \in Ratios \ {ratio} :
                 get_geometry([current |-> current', ratio |-> r])
                     = get_geometry([current |-> current, ratio |-> r]))]_vars

\* a geometry was set under the non-default ratio and differs from what
\* get_geometry returns under the other ratio
C10_Witness ==
    /\ lastOp.op = "set_geometry"
    /\ ratio # DefaultRatio
    /\ get_geometry(Self) = lastOp.arg
    /\ get_geometry([Self EXCEPT !.ratio = DefaultRatio]) # lastOp.arg
    /\ get_geometry([current |-> source, ratio |-> ratio]) # lastOp.arg

\* the file prev_wall moves to from the state, None when there is none
PrevTarget ==
    LET i == IF index = 0 THEN Len(files) - 1 ELSE index - 1
    IN  IF 0 <= i /\ i < Len(files) THEN Some(files[i + 1]) ELSE None

\* the file next_wall, and remove through it, moves to from the state
NextTarget ==
    LET i == IF index = Len(files) - 1 THEN 0 ELSE index + 1
    IN  IF i < Len(files) THEN Some(files[i + 1]) ELSE None

\* the filename the step's operation has to load, None when there is none
TargetName(op) ==
    IF op.op = "set_from_filename" THEN Some(op.arg)
    ELSE IF op.op = "prev_wall"
         THEN (IF PrevTarget = None THEN None ELSE Some(filename(Unwrap(PrevTarget))))
         ELSE (IF NextTarget = None THEN None ELSE Some(filename(Unwrap(NextTarget))))

\* C11: when the store has no record for the filename prev_wall, next_wall,
\* remove or set_from_filename has to load, the call panics with source and
\* current untouched; when it returns, source and current are the store's
\* record for that filename
C11_MissingRecordIsFatal ==
    [][(lastOp'.op \in ImageChangeOps /\ TargetName(lastOp') # None)
       => LET rec == CsvGet(csv, Unwrap(TargetName(lastOp')))
          IN  /\ rec = None
                    => (status' = PanicNoInfo /\ source' = source /\ current' = current)
              /\ status' = Running
                    => (rec = Some(source') /\ rec = Some(current'))]_vars

\* next_wall moved to a file without a record and panicked, the records of
\* the image it left still in place
C11_Witness ==
    /\ lastOp.op = "next_wall"
    /\ status = PanicNoInfo
    /\ index # pre.index
    /\ index < Len(files)
    /\ RecordAt(files, index) = None
    /\ RecordAt(files, pre.index) = Some(source)

\* C12: set_from_filename(name) with a record for name moves index to the
\* first entry whose filename is name, and panics when files has none
C12_FirstMatchWins ==
    [][(lastOp'.op = "set_from_filename" /\ CsvGet(csv, lastOp'.arg) # None)
       => IF \E k \in 1..Len(files) : filename(files[k]) = lastOp'.arg
          THEN /\ status' = Running
               /\ index' < Len(files)
               /\ filename(files[index' + 1]) = lastOp'.arg
               /\ \A j \in 1..index' : filename(files[j]) # lastOp'.arg
          ELSE status' = PanicNotFound]_vars

\* set_from_filename chose the first of two different paths with the filename
C12_Witness ==
    /\ lastOp.op = "set_from_filename"
    /\ status = Running
    /\ index # pre.index
    /\ \E k \in (index + 2)..Len(files) :
          /\ filename(files[k]) = lastOp.arg
          /\ files[k] # files[index + 1]

\* C13: a construction that succeeds yields index 0, ratio 1440:2560, and
\* source and current equal to the store's record for files[0]
C13_ConstructionResult ==
    (lastOp.op = "from_args" /\ status = Running)
    => (/\ index = 0
        /\ ratio = <<1440, 2560>>
        /\ Len(files) > 0
        /\ source = current
        /\ RecordAt(files, 0) = Some(source))

\* construction succeeded on files whose first and last filenames differ
C13_Witness ==
    /\ lastOp.op = "from_args"
    /\ status = Running
    /\ Len(files) >= 2
    /\ filename(files[1]) # filename(files[Len(files)])
    /\ source.filename = filename(files[1])

\* how often a path occurs in a list
Count(s, p) == Cardinality({k \in 1..Len(s) : s[k] = p})

\* two lists hold the same paths the same number of times
SamePaths(s, t) == \A p \in Paths : Count(s, p) = Count(t, p)

\* the files construction found: those of the path arguments, or with none
\* of them the listing of the wallpaper directory
Discovered ==
    IF pre.given # <<>> THEN pre.given
    ELSE IF pre.listing = None THEN <<>> ELSE Unwrap(pre.listing)

\* C14: after construction files is a permutation of the discovered files,
\* most recently modified first
C14_NewestFirst ==
    (lastOp.op = "from_args" /\ status = Running)
    => (/\ SamePaths(files, Discovered)
        /\ Len(files) = Len(Discovered)
        /\ \A i, j \in 1..Len(files) : i < j => mtime(files[i]) >= mtime(files[j]))

\* construction reordered three or more files of different ages
C14_Witness ==
    /\ lastOp.op = "from_args"
    /\ status = Running
    /\ Len(files) >= 3
    /\ files # Discovered
    /\ mtime(files[1]) > mtime(files[Len(files)])
    /\ mtime(Discovered[1]) < mtime(Discovered[Len(Discovered)])

\* the file construction loads first: of the newest discovered files the one
\* discovered last
NewestLast(s) ==
    s[CHOOSE k \in 1..Len(s) :
        /\ \A j \in 1..Len(s) : mtime(s[j]) <= mtime(s[k])
        /\ \A j \in (k + 1)..Len(s) : mtime(s[j]) < mtime(s[k])]

\* C15: construction never returns an empty list; the wallpaper directory is
\* used only when the path arguments resolve to no file; construction exits
\* when that directory is then missing, and panics when the list is empty or
\* the first file has no record
C15_ConstructionFailsFast ==
    lastOp.op = "from_args"
    => (/\ status = Running => Len(files) > 0
        /\ (status = Running /\ pre.given # <<>>) => SamePaths(files, pre.given)
        /\ status = Exit1 <=> (pre.given = <<>> /\ pre.listing = None)
        /\ status = PanicNoWalls <=> (pre.given = <<>> /\ pre.listing = Some(<<>>))
        /\ status = PanicNoInfo
              <=> (Discovered # <<>>
                   /\ CsvGet(csv, filename(NewestLast(Discovered))) = None))

\* construction panicked on an existing but empty wallpaper directory
C15_Witness ==
    /\ lastOp.op = "from_args"
    /\ status = PanicNoWalls
    /\ pre.given = <<>>
    /\ pre.listing = Some(<<>>)
    /\ files = <<>>

\* C16: set_geometry(g) changes nothing but the geometry of the active ratio
\* in current; source, files, index, ratio and the store stay, so a source
\* that was the store's record for files[index] still is
C16_SetGeometryFrame ==
    [][lastOp'.op = "set_geometry"
       => (/\ UNCHANGED <<source, files, index, ratio, csv, status>>
           /\ current'.filename = current.filename
           /\ current'.geometries[ratio] = lastOp'.arg
           /\ \A r \in Ratios \ {ratio} :
                 current'.geometries[r] = current.geometries[r]
           /\ (index < Len(files) /\ RecordAt(files, index) = Some(source))
                 => RecordAt(files', index') = Some(source'))]_vars

\* an edit has made current differ from source, which is still the store's
\* record for files[index]
C16_Witness ==
    /\ lastOp.op = "set_geometry"
    /\ current # source
    /\ ratio # DefaultRatio
    /\ index < Len(files)
    /\ RecordAt(files, index) = Some(source)

\* C17: a remove() that returns deletes the entry at the pre-call index and
\* nothing else: the other entries keep their order, the store and the ratio
\* stay
C17_RemoveFrame ==
    [][(lastOp'.op = "remove" /\ status' = Running)
       => (/\ index < Len(files)
           /\ Len(files') = Len(files) - 1
           /\ \A k \in 1..Len(files') :
                 files'[k] = IF k <= index THEN files[k] ELSE files[k + 1]
           /\ csv' = csv
           /\ ratio' = ratio)]_vars

\* remove() took an entry out of the middle of the list under the
\* non-default ratio, and the removed image's record is still in the store
C17_Witness ==
    /\ lastOp.op = "remove"
    /\ status = Running
    /\ pre.index >= 1
    /\ pre.index < Len(files)
    /\ files[pre.index] # files[pre.index + 1]
    /\ ratio # DefaultRatio
    /\ \A n \in Names : csv[n] # None

\* C18: prev_wall, next_wall and set_from_filename leave files and ratio as
\* they are; files changes only by remove and only by getting shorter
C18_NavigationFrame ==
    [][status = Running
       => (/\ lastOp'.op \in NavOps => (files' = files /\ ratio' = ratio)
           /\ files' # files => (lastOp'.op = "remove" /\ Len(files') < Len(files)))]_vars

\* a navigation call moved the cursor under the non-default ratio
C18_Witness ==
    /\ lastOp.op \in NavOps
    /\ status = Running
    /\ ratio # DefaultRatio
    /\ index # pre.index
    /\ Len(files) >= 2

\* C19 as stated: a call that panics on a missing record or on a filename
\* not in files leaves files, index, source and current at their pre-call
\* values
C19_HaltAppliesNothing ==
    [][(lastOp'.op \in ImageChangeOps /\ status' \in {PanicNoInfo, PanicNotFound})
       => UNCHANGED <<files, index, source, current>>]_vars

\* C19 amended: a call that panics leaves files and ratio at their pre-call
\* values; prev_wall, next_wall and remove leave source and current but may
\* have moved index; set_from_filename leaves index, and leaves source and
\* current when it is the record that is missing
C19_HaltKeepsFiles ==
    [][(lastOp'.op \in ImageChangeOps /\ status' # Running)
       => (/\ UNCHANGED <<files, ratio, csv>>
           /\ lastOp'.op # "set_from_filename" => UNCHANGED <<source, current>>
           /\ lastOp'.op = "set_from_filename" => UNCHANGED index
           /\ (lastOp'.op = "set_from_filename" /\ status' = PanicNoInfo)
                 => UNCHANGED <<source, current>>)]_vars

\* next_wall panicked on a missing record with index already moved on
C19_Witness ==
    /\ lastOp.op = "next_wall"
    /\ status = PanicNoInfo
    /\ index # pre.index
    /\ Len(files) >= 2
    /\ RecordAt(files, pre.index) = Some(source)

\* set_from_filename panicked on a filename not in files with source and
\* current already replaced
C19_WitnessNotFound ==
    /\ lastOp.op = "set_from_filename"
    /\ status = PanicNotFound
    /\ source.filename = lastOp.arg
    /\ index < Len(files)
    /\ filename(files[index + 1]) # lastOp.arg

====
